---- MODULE Spec2Model ----
(***************************************************************************)
(* State-machine model of edm::DQMStreamerReader                           *)
(* (IOPool/DQMStreamer/plugins/DQMStreamerReader.cc): the event pump that  *)
(* tails a run directory, rotates over the lumisection data files and      *)
(* hands events (or a clean end signal) to a single consumer.              *)
(*                                                                         *)
(* The reader is single threaded.  Its blocking loops (reset_ and          *)
(* prepareNextEvent) are modelled one loop iteration per step, so that the *)
(* run directory (new lumisection entries, the end-of-run marker) can      *)
(* change between two iterations, as it does while the reader sleeps or    *)
(* polls.  DQMFileIterator and StreamerInputFile are not part of the       *)
(* sources at hand; they are modelled from their documented contracts.     *)
(***************************************************************************)
EXTENDS Integers, Sequences, FiniteSets, TLC

\* ------------------------------------------------------------------ bounds
MaxLumi == 2
MaxEvents == 2
MaxMinEvents == 1
MaxSkip == 3

Lumis == 1..MaxLumi

\* The ids of the physical events, in stream order (the stream of the skip
\* example), and the skip predicate the configuration installs.
StreamIds == <<1, 2, 5, 3, 9, 4>>
SkipperChoices == {{5, 9}}

\* --------------------------------------------------------------- variables
VARIABLES
  \* configuration, read once by the constructor
  minEventsPerLs_, flagSkipFirstLumis_, flagEndOfRunKills_, flagDeleteDatFiles_,
  eventSkipperByID_,
  \* the run directory, as written by the acquisition process
  lastLumi,     \* number of lumisections announced so far
  onDisk,       \* the data files whose path exists
  unlinkWorks,  \* whether unlink() succeeds in the run directory
  \* fiterator_
  queue, state,
  \* the reader
  streamReader_, readPos, processedEventPerLs_,
  pc, toSkip, i,
  \* observation of the run, for the properties
  peakOpen, eofSeen, openedLog, poppedLog, readFrom, lastRet, eosReturns,
  skipConsumed, skipCounted, slept, emptyAccess,
  badHeader     \* the files opened whose first record was not an INIT record

cfgvars == <<minEventsPerLs_, flagSkipFirstLumis_, flagEndOfRunKills_,
             flagDeleteDatFiles_, eventSkipperByID_>>
envvars == <<state, unlinkWorks>>
skipvars == <<toSkip, i, skipConsumed, skipCounted>>
vars == <<minEventsPerLs_, flagSkipFirstLumis_, flagEndOfRunKills_,
          flagDeleteDatFiles_, eventSkipperByID_, lastLumi, onDisk,
          unlinkWorks, queue, state, streamReader_, readPos,
          processedEventPerLs_, pc, toSkip, i, peakOpen, eofSeen, openedLog,
          poppedLog, readFrom, lastRet, eosReturns, skipConsumed, skipCounted,
          slept, emptyAccess, badHeader>>

\* streamReader_.get() == nullptr
nullptr == 0

\* What a step finds in the data files it opens or reads, the content of a
\* file being the acquisition process's: bad = the lumisection whose file
\* does not start with an INIT record (0: none of those the step opens),
\* more = another event record follows the ones read so far (a file holds
\* at most MaxEvents events); and what the index finds in the run directory
\* when the step asks it hasNext() a second time: late = "none", or the
\* next lumisection's entry, its data file being "there" or "absent".
Inputs ==
  {[bad |-> 0, more |-> TRUE, late |-> "none"],
   [bad |-> 0, more |-> FALSE, late |-> "none"]}
    \cup {[bad |-> l, more |-> TRUE, late |-> "none"] : l \in Lumis}
    \cup {[bad |-> 0, more |-> FALSE, late |-> d] : d \in {"there", "absent"}}

\* For a step that opens and reads nothing.
NoInput == [bad |-> 0, more |-> FALSE, late |-> "none"]

\* The id of the k-th event of lumisection l's file.
EventId(l, k) ==
  LET idx == (l - 1) * MaxEvents + k
  IN IF idx <= Len(StreamIds) THEN StreamIds[idx] ELSE 100 + idx


\* ------------------------------------------------- fiterator_ (contract)
\* state() == State::OPEN / State::EOR
StateOpen == "OPEN"
StateEOR == "EOR"

\* hasNext(): at least one entry is queued.
hasNext(m) == m.queue # <<>>

\* The side effect of a call of the index: an entry that has appeared in
\* the run directory since the last call is appended.  A step of the
\* reader sees the index as it is when the step begins (what appeared
\* before is Announce's), and refreshed by the hasNext() of the rotation
\* test, the last call of the index in an iteration of prepareNextEvent.
hasNextDiscovers(m) ==
  IF m.in.late # "none" /\ state = StateOpen /\ m.lastLumi < MaxLumi
  THEN [m EXCEPT !.lastLumi = @ + 1,
                 !.queue = Append(@, m.lastLumi + 1),
                 !.onDisk = IF m.in.late = "there"
                            THEN @ \cup {m.lastLumi + 1} ELSE @]
  ELSE m

\* ------------------------------------------------------ the reader's steps
\* The part of the state the reader's functions change, as one record; ok is
\* openNextFile_'s result, ret the outcome of a loop iteration of
\* prepareNextEvent ("continue", "null" or "event"), ev the event returned.
Cur(in) ==
  [in |-> in, streamReader_ |-> streamReader_, readPos |-> readPos,
   processedEventPerLs_ |-> processedEventPerLs_, queue |-> queue,
   lastLumi |-> lastLumi, onDisk |-> onDisk, peakOpen |-> peakOpen,
   eofSeen |-> eofSeen, openedLog |-> openedLog, poppedLog |-> poppedLog,
   readFrom |-> readFrom, emptyAccess |-> emptyAccess,
   badHeader |-> badHeader, thrown |-> FALSE, ok |-> FALSE,
   ret |-> "continue", ev |-> 0, slept |-> FALSE]

Max(a, b) == IF a >= b THEN a ELSE b

\* Number of StreamerInputFile objects alive.
Handles(m) == IF m.streamReader_ = nullptr THEN 0 ELSE 1

delay_(m) == [m EXCEPT !.slept = TRUE]

\* Variant: closing the file also clears the per-lumi counter.
closeFile_ResetsCounter(m) ==
  IF m.streamReader_ # nullptr
  THEN [m EXCEPT !.streamReader_ = nullptr, !.readPos = 0,
                 !.processedEventPerLs_ = 0]
  ELSE m

closeFile_(m) ==
  IF m.streamReader_ # nullptr
  THEN [m EXCEPT !.streamReader_ = nullptr, !.readPos = 0]
  ELSE m

\* Variant: the type of the first record is not looked at.
getHeaderMsg_NoCheck(m) == TRUE

\* getHeaderMsg(): TRUE when the first record of the open file is an INIT
\* record, else it throws.
getHeaderMsg(m) == m.in.bad # m.streamReader_

\* Variant: a failing unlink is an error.
unlink_FailureFatal(m, l) ==
  IF unlinkWorks THEN [m EXCEPT !.onDisk = @ \ {l}]
  ELSE [m EXCEPT !.thrown = TRUE]

\* unlink(newStreamerFile_); its result is not looked at.
unlink(m, l) ==
  IF unlinkWorks THEN [m EXCEPT !.onDisk = @ \ {l}] ELSE m

\* The new StreamerInputFile is constructed while the unique_ptr still owns
\* the old one, which the assignment then destroys.
openFile_(m, l) ==
  LET m1 == [m EXCEPT !.processedEventPerLs_ = 0,
                      !.peakOpen = Max(@, Handles(m) + 1),
                      !.streamReader_ = l,
                      !.readPos = 0,
                      !.openedLog = Append(@, l),
                      !.badHeader = IF m.in.bad = l THEN @ \cup {l} ELSE @]
  IN IF ~getHeaderMsg(m1)
     THEN [m1 EXCEPT !.thrown = TRUE]
     ELSE LET m2 == [m1 EXCEPT !.processedEventPerLs_ = 0]
          IN IF flagDeleteDatFiles_ THEN unlink(m2, l) ELSE m2

\* Variant: the previous handle is not closed before the next file is opened.
openNextFile_NoClose(m) ==
  IF m.queue = <<>>
  THEN [m EXCEPT !.emptyAccess = TRUE, !.ok = FALSE]
  ELSE LET lumi == Head(m.queue)
           m2 == [m EXCEPT !.queue = Tail(@), !.poppedLog = Append(@, lumi)]
       IN IF lumi \in m2.onDisk
          THEN [openFile_(m2, lumi) EXCEPT !.ok = TRUE]
          ELSE [m2 EXCEPT !.ok = FALSE]

\* Variant: a missing data file is treated as a fatal error.
openNextFile_MissingFatal(m) ==
  LET m1 == closeFile_(m)
  IN IF m1.queue = <<>>
     THEN [m1 EXCEPT !.emptyAccess = TRUE, !.ok = FALSE]
     ELSE LET lumi == Head(m1.queue)
              m2 == [m1 EXCEPT !.queue = Tail(@),
                               !.poppedLog = Append(@, lumi)]
          IN IF lumi \in m2.onDisk
             THEN [openFile_(m2, lumi) EXCEPT !.ok = TRUE]
             ELSE [m2 EXCEPT !.ok = FALSE, !.thrown = TRUE]

\* Variant: the front entry is used without being popped.
openNextFile_NoPop(m) ==
  LET m1 == closeFile_(m)
  IN IF m1.queue = <<>>
     THEN [m1 EXCEPT !.emptyAccess = TRUE, !.ok = FALSE]
     ELSE LET lumi == Head(m1.queue)
          IN IF lumi \in m1.onDisk
             THEN [openFile_(m1, lumi) EXCEPT !.ok = TRUE]
             ELSE [m1 EXCEPT !.queue = Tail(@),
                             !.poppedLog = Append(@, lumi), !.ok = FALSE]

\* front() is taken to yield the entry itself, as its contract states; on an
\* empty index it fails (EmptyIndex), recorded in emptyAccess.
openNextFile_(m) ==
  LET m1 == closeFile_(m)
  IN IF m1.queue = <<>>
     THEN [m1 EXCEPT !.emptyAccess = TRUE, !.ok = FALSE]
     ELSE LET lumi == Head(m1.queue)
              m2 == [m1 EXCEPT !.queue = Tail(@),
                               !.poppedLog = Append(@, lumi)]
          IN IF lumi \in m2.onDisk
             THEN [openFile_(m2, lumi) EXCEPT !.ok = TRUE]
             ELSE [m2 EXCEPT !.ok = FALSE]

\* getEventMsg(): next() is false at the end of the file.
getEventMsg(m) ==
  IF m.in.more /\ m.readPos < MaxEvents
  THEN [m EXCEPT !.readPos = @ + 1,
                 !.readFrom = @ \cup {m.streamReader_},
                 !.ret = "event",
                 !.ev = EventId(m.streamReader_, m.readPos + 1)]
  ELSE [m EXCEPT !.eofSeen = @ \cup {m.streamReader_}, !.ret = "null"]

\* The fast-forward loop of reset_: while (hasNext()) openNextFile_().
RECURSIVE FastForward(_)
FastForward(m) ==
  IF m.thrown \/ ~hasNext(m) THEN m
  ELSE FastForward(openNextFile_(m))

\* Variant: the skipFirstLumis flag is ignored.
reset_NoFastForward(m) ==
  IF ~hasNext(m)
  THEN delay_(m)
  ELSE LET m1 == openNextFile_(m)
       IN IF m1.thrown \/ ~m1.ok THEN m1 ELSE [m1 EXCEPT !.ret = "null"]

\* Variant: the startup loop ends after its first attempt, file or no file.
reset_BreakOnMissing(m) ==
  IF ~hasNext(m)
  THEN delay_(m)
  ELSE LET m1 == openNextFile_(m)
       IN IF m1.thrown THEN m1
          ELSE IF flagSkipFirstLumis_
               THEN [FastForward(m1) EXCEPT !.ret = "null"]
               ELSE [m1 EXCEPT !.ret = "null"]

\* One iteration of the first loop of reset_, then (after the first
\* successful open) the fast-forward; ret = "continue" while the
\* constructor is still in its loop, "null" when reset_ has returned.
reset_(m) ==
  IF ~hasNext(m)
  THEN delay_(m)
  ELSE LET m1 == openNextFile_(m)
       IN IF m1.thrown THEN m1
          ELSE IF ~m1.ok THEN m1
          ELSE IF flagSkipFirstLumis_
               THEN [FastForward(m1) EXCEPT !.ret = "null"]
               ELSE [m1 EXCEPT !.ret = "null"]

\* Variant: the kill switch acts only while no file is open.
forceQuit_OnlyWhenClosed(m) ==
  flagEndOfRunKills_ /\ state # StateOpen /\ m.streamReader_ = nullptr

\* flagEndOfRunKills_ && (fiterator_.state() != State::OPEN)
forceQuit(m) == flagEndOfRunKills_ /\ state # StateOpen

\* Variant: the clean exit does not wait for the end-of-run marker.
cleanExit_NoEorCheck(m) == m.streamReader_ = nullptr /\ ~hasNext(m)

\* Variant: the clean exit does not look at the index.
cleanExit_IgnoreQueue(m) == m.streamReader_ = nullptr /\ state = StateEOR

\* Variant: there is no clean exit.
cleanExit_Never(m) == FALSE

\* no reader, nothing queued, end of run: the clean exit
cleanExit(m) ==
  m.streamReader_ = nullptr /\ ~hasNext(m) /\ state = StateEOR

\* Variant: "at least" instead of "more than" minEventsPerLumi.
enoughProcessed_AtLeast(m) ==
  hasNext(m) /\ m.processedEventPerLs_ >= minEventsPerLs_

\* Variant: the rotation comes one event late.
enoughProcessed_Late(m) ==
  hasNext(m) /\ m.processedEventPerLs_ > minEventsPerLs_ + 1

\* Variant: the rotation does not ask the index for a next entry.
enoughProcessed_NoHasNext(m) == m.processedEventPerLs_ > minEventsPerLs_

\* fiterator_.hasNext() && (processedEventPerLs_ > minEventsPerLs_)
enoughProcessed(m) ==
  hasNext(m) /\ m.processedEventPerLs_ > minEventsPerLs_

\* One iteration of the for (;;) of prepareNextEvent.
prepareNextEvent(m) ==
  IF forceQuit(m)
  THEN [closeFile_(m) EXCEPT !.ret = "null"]
  ELSE IF cleanExit(m)
  THEN [closeFile_(m) EXCEPT !.ret = "null"]
  ELSE IF m.streamReader_ = nullptr /\ hasNext(m)
  THEN openNextFile_(m)
  ELSE LET m0 == hasNextDiscovers(m)
       IN IF enoughProcessed(m0)
          THEN openNextFile_(m0)
          ELSE IF m0.streamReader_ = nullptr
          THEN delay_(m0)
          ELSE LET m1 == getEventMsg(m0)
               IN IF m1.ret = "null"
                  THEN [closeFile_(m1) EXCEPT !.ret = "continue"]
                  ELSE m1


\* --------------------------------------------------------------- actions
\* The inputs the constructor can tell apart: it reads no event and asks
\* the index once per iteration; it opens queued entries' files only.
ConstructInputs ==
  {in \in Inputs :
     /\ in.late = "none"
     /\ in.bad \in {0} \cup {queue[k] : k \in 1..Len(queue)}
     /\ in.more => in.bad # 0}

\* The inputs an iteration of prepareNextEvent can tell apart: the header
\* of the front entry's file, a next record if a file is open, a new entry
\* if the run directory can still get one.
PrepareInputs ==
  {in \in Inputs :
     /\ in.bad \in {0} \cup (IF queue = <<>> THEN {} ELSE {Head(queue)})
     /\ (in.more /\ in.bad = 0) => streamReader_ # nullptr
     /\ in.late # "none" => (state = StateOpen /\ lastLumi < MaxLumi)}

Init ==
  /\ minEventsPerLs_ \in 0..MaxMinEvents
  /\ flagSkipFirstLumis_ \in BOOLEAN
  /\ flagEndOfRunKills_ \in BOOLEAN
  /\ flagDeleteDatFiles_ \in BOOLEAN
  /\ eventSkipperByID_ \in SkipperChoices
  /\ lastLumi = 0
  /\ onDisk = {}
  /\ queue = <<>>
  /\ state = StateOpen
  /\ streamReader_ = nullptr
  /\ readPos = 0
  /\ processedEventPerLs_ = 0
  /\ pc = "ctor"
  /\ toSkip = 0
  /\ i = 0
  /\ peakOpen = 0
  /\ eofSeen = {}
  /\ openedLog = <<>>
  /\ poppedLog = <<>>
  /\ lastRet = "none"
  /\ eosReturns = "no"
  /\ skipConsumed = 0
  /\ skipCounted = 0
  /\ slept = FALSE
  /\ emptyAccess = FALSE
  /\ readFrom = {}
  /\ badHeader = {}
  /\ unlinkWorks \in (IF flagDeleteDatFiles_ THEN BOOLEAN ELSE {TRUE})

\* The reader's part of the next state, from the record a step computed.
Set(m) ==
  /\ streamReader_' = m.streamReader_
  /\ readPos' = m.readPos
  /\ processedEventPerLs_' = m.processedEventPerLs_
  /\ queue' = m.queue
  /\ lastLumi' = m.lastLumi
  /\ onDisk' = m.onDisk
  /\ peakOpen' = m.peakOpen
  /\ eofSeen' = m.eofSeen
  /\ openedLog' = m.openedLog
  /\ poppedLog' = m.poppedLog
  /\ readFrom' = m.readFrom
  /\ emptyAccess' = m.emptyAccess
  /\ badHeader' = m.badHeader
  /\ slept' = m.slept

Running == pc \notin {"failed", "destroyed"}

\* The acquisition process announces the next lumisection: an index entry
\* naming a data file, which is on disk or (a tolerated race) is not.
Announce ==
  /\ Running
  /\ state = StateOpen
  /\ lastLumi < MaxLumi
  /\ \E there \in BOOLEAN :
       onDisk' = IF there THEN onDisk \cup {lastLumi + 1} ELSE onDisk
  /\ lastLumi' = lastLumi + 1
  /\ queue' = Append(queue, lastLumi + 1)
  /\ UNCHANGED <<cfgvars, state, streamReader_, readPos, processedEventPerLs_,
                 pc, skipvars, peakOpen, eofSeen, openedLog, poppedLog,
                 readFrom, lastRet, eosReturns, slept, emptyAccess,
                 badHeader, unlinkWorks>>

\* The end-of-run marker appears: no further entry will.
EndOfRun ==
  /\ Running
  /\ state = StateOpen
  /\ state' = StateEOR
  /\ UNCHANGED <<cfgvars, lastLumi, onDisk, queue, streamReader_,
                 readPos, processedEventPerLs_, pc, skipvars, peakOpen,
                 eofSeen, openedLog, poppedLog, readFrom, lastRet, eosReturns,
                 slept, emptyAccess, badHeader, unlinkWorks>>

\* What is remembered of the null returns (the end signal) of
\* prepareNextEvent: "no" (none yet), "once", "again" (more than one).
CountEos(m) ==
  IF m.ret = "null" /\ ~m.thrown
  THEN (IF eosReturns = "no" THEN "once" ELSE "again")
  ELSE eosReturns

\* The locals of skip() are gone once it has returned; what was observed of
\* a skip() call is kept until the next call of the reader.
SkipFrameGone ==
  /\ toSkip' = 0
  /\ i' = 0
  /\ skipConsumed' = 0
  /\ skipCounted' = 0

\* DQMStreamerReader::DQMStreamerReader: one iteration of reset_'s loop.
Construct ==
  /\ pc = "ctor"
  /\ \E in \in ConstructInputs :
       LET m == reset_(Cur(in))
       IN /\ Set(m)
          /\ pc' = IF m.thrown THEN "failed"
                   ELSE IF m.ret = "null" THEN "idle" ELSE "ctor"
  /\ UNCHANGED <<cfgvars, envvars, skipvars, lastRet, eosReturns>>

\* checkNextEvent(): one iteration of prepareNextEvent and, when it returns,
\* the rest of checkNextEvent.
checkNextEvent ==
  /\ pc \in {"idle", "next"}
  /\ \E in \in PrepareInputs :
       LET m == prepareNextEvent(Cur(in))
           got == m.ret = "event" /\ ~m.thrown
       IN /\ Set([m EXCEPT !.processedEventPerLs_ = IF got THEN @ + 1 ELSE @])
          /\ pc' = IF m.thrown THEN "failed"
                   ELSE IF m.ret = "continue" THEN "next" ELSE "idle"
          /\ lastRet' = IF m.thrown THEN "thrown" ELSE m.ret
          /\ eosReturns' = CountEos(m)
  /\ SkipFrameGone
  /\ UNCHANGED <<cfgvars, envvars>>

\* skip(toSkip): entry, with the loop's first test.
skipCall ==
  /\ pc = "idle"
  /\ \E n \in 0..MaxSkip :
       /\ toSkip' = n
       /\ pc' = IF n = 0 THEN "idle" ELSE "skip"
  /\ i' = 0
  /\ skipConsumed' = 0
  /\ skipCounted' = 0
  /\ lastRet' = "none"
  /\ slept' = FALSE
  /\ UNCHANGED <<cfgvars, envvars, lastLumi, onDisk, queue, streamReader_, readPos,
                 processedEventPerLs_, peakOpen, eofSeen, openedLog,
                 poppedLog, readFrom, eosReturns, emptyAccess, badHeader>>

\* eventSkipperByID_ && eventSkipperByID_->skipIt(run, lumi, event)
skipIt(ev) == ev \in eventSkipperByID_

\* Variant: an event the predicate matches counts as skipped.
skipAdvance_NoCompensation(k, ev) == k + 1

\* The loop counter after the body and the ++i of the for statement.
skipAdvance(k, ev) == IF skipIt(ev) THEN (k - 1) + 1 ELSE k + 1

\* Variant: an event consumed by skip counts as processed.
skipStep_Counting ==
  /\ pc = "skip"
  /\ \E in \in PrepareInputs :
       LET m == prepareNextEvent(Cur(in))
           got == m.ret = "event" /\ ~m.thrown
           k == IF got THEN skipAdvance(i, m.ev) ELSE i
       IN /\ Set([m EXCEPT !.processedEventPerLs_ = IF got THEN @ + 1 ELSE @])
          /\ i' = k
          /\ pc' = IF m.thrown THEN "failed"
                   ELSE IF m.ret = "null" THEN "idle"
                   ELSE IF m.ret = "event" /\ k = toSkip THEN "idle"
                   ELSE "skip"
          /\ lastRet' = IF m.thrown THEN "thrown" ELSE m.ret
          /\ eosReturns' = CountEos(m)
          /\ skipConsumed' = IF got THEN skipConsumed + 1 ELSE skipConsumed
          /\ skipCounted' = IF got /\ ~skipIt(m.ev)
                            THEN skipCounted + 1 ELSE skipCounted
  /\ UNCHANGED <<cfgvars, envvars, toSkip>>

\* skip(): one iteration of prepareNextEvent and, when it returns, the rest
\* of the body of skip's loop.
skipStep ==
  /\ pc = "skip"
  /\ \E in \in PrepareInputs :
       LET m == prepareNextEvent(Cur(in))
           got == m.ret = "event" /\ ~m.thrown
           k == IF got THEN skipAdvance(i, m.ev) ELSE i
       IN /\ Set(m)
          /\ i' = k
          /\ pc' = IF m.thrown THEN "failed"
                   ELSE IF m.ret = "null" THEN "idle"
                   ELSE IF m.ret = "event" /\ k = toSkip THEN "idle"
                   ELSE "skip"
          /\ lastRet' = IF m.thrown THEN "thrown" ELSE m.ret
          /\ eosReturns' = CountEos(m)
          /\ skipConsumed' = IF got THEN skipConsumed + 1 ELSE skipConsumed
          /\ skipCounted' = IF got /\ ~skipIt(m.ev)
                            THEN skipCounted + 1 ELSE skipCounted
  /\ UNCHANGED <<cfgvars, envvars, toSkip>>

\* DQMStreamerReader::~DQMStreamerReader
Destructor ==
  /\ pc \in {"idle", "failed"}
  /\ Set(closeFile_(Cur(NoInput)))
  /\ pc' = "destroyed"
  /\ SkipFrameGone
  /\ UNCHANGED <<cfgvars, envvars, lastRet, eosReturns>>

Next ==
  \/ Announce
  \/ EndOfRun
  \/ Construct
  \/ checkNextEvent
  \/ skipCall
  \/ skipStep
  \/ Destructor

Spec == Init /\ [][Next]_vars

\* A call of nextEvent in progress runs on: the loop of prepareNextEvent
\* takes its next iteration.
nextEventRuns == pc = "next" /\ checkNextEvent

\* The run as the liveness of nextEvent supposes it: the reader's thread is
\* scheduled, and the end-of-run marker eventually appears (the entries
\* and the files are finite by the bounds).
FairSpec ==
  /\ Spec
  /\ WF_vars(nextEventRuns)
  /\ WF_vars(EndOfRun)


\* ---------------------------------------------------------------- claims
Last(q) == q[Len(q)]

\* The lumisections whose data file has been opened.
Opened == {openedLog[k] : k \in 1..Len(openedLog)}

\* A step that is an iteration of prepareNextEvent (from nextEvent or skip).
PrepareStep == checkNextEvent \/ skipStep

\* C1: at most one physical file handle is open in every reachable state
\* (the one of the file opened last; none after destruction), and no file
\* was ever opened while the previous handle was still open.
C1_SingleHandle ==
  /\ streamReader_ # nullptr => streamReader_ = Last(openedLog)
  /\ peakOpen <= 1
  /\ pc = "destroyed" => streamReader_ = nullptr

\* Two files have been opened one after the other.
C1_Witness == Len(openedLog) >= 2 /\ peakOpen = 1 /\ streamReader_ # nullptr

\* C2: once prepareNextEvent has returned null, every later iteration of it
\* returns null at once, no file is opened any more, and no handle is open
\* after any null return.
C2_EndSignalIsFinal ==
  [][/\ eosReturns' # "no" => streamReader_' = nullptr
     /\ eosReturns # "no" =>
          /\ openedLog' = openedLog
          /\ PrepareStep => (lastRet' = "null" /\ pc' = "idle")]_vars

\* The end signal has been returned a second time.
C2_Witness == eosReturns = "again" /\ streamReader_ = nullptr /\ pc = "idle"

\* C3: a data file is gone from disk only after its end of file has been
\* observed.
C3_DeletedOnlyAfterEof ==
  \A l \in Opened : l \notin onDisk => l \in eofSeen

\* C4: skip(n) returns after a consumed event only when exactly n events not
\* matched by the predicate have been consumed (otherwise it returns because
\* the stream ended); matched events are consumed without counting.
C4_SkipCompensation ==
  /\ pc = "skip" => (skipCounted < toSkip /\ i = skipCounted)
  /\ (pc = "idle" /\ toSkip > 0 /\ lastRet = "event") => skipCounted = toSkip
  /\ (pc = "idle" /\ toSkip > 0) => (skipCounted = toSkip \/ lastRet = "null")
  /\ skipConsumed >= skipCounted
  /\ toSkip = 0 => skipConsumed = 0

\* The example: with predicate {5, 9}, skip(3) over the stream 1, 2, 5, 3, ...
\* (two files of two events) has returned after consuming exactly 4
\* physical events, the last being event 3.
C4_Witness ==
  /\ pc = "idle" /\ toSkip = 3 /\ lastRet = "event"
  /\ eventSkipperByID_ = {5, 9}
  /\ skipCounted = 3 /\ skipConsumed = 4
  /\ openedLog = <<1, 2>> /\ eofSeen = {1}
  /\ streamReader_ = 2 /\ readPos = 2 /\ EventId(2, 2) = 3


\* A step of nextEvent or skip that closes the open file although its end
\* has not been observed and the kill switch has not fired.
EarlyRotation ==
  /\ streamReader_ # nullptr
  /\ streamReader_' # streamReader_
  /\ streamReader_ \notin eofSeen'
  /\ ~(flagEndOfRunKills_ /\ state # StateOpen)
  /\ PrepareStep

MissingFront ==
  /\ poppedLog' # poppedLog
  /\ \/ queue # <<>> /\ Head(queue) \notin onDisk
     \/ /\ queue = <<>> /\ lastLumi' > lastLumi
        /\ lastLumi' \notin onDisk' /\ openedLog' = openedLog

\* C7: when the front entry's data file is absent, the entry is popped, no
\* file is opened, nothing is thrown, the call in progress neither fails
\* nor returns the end signal, and the per-lumi counter is unchanged; in no
\* step (the fast-forward included) is a file opened that is not on disk.
C7_MissingFileTolerated ==
  [][/\ MissingFront =>
          /\ poppedLog' = Append(poppedLog, Last(poppedLog'))
          /\ poppedLog' \o queue' = [k \in 1..lastLumi' |-> k]
          /\ queue # <<>> =>
               /\ Last(poppedLog') = Head(queue)
               /\ \A k \in 1..(Len(queue) - 1) : queue'[k] = queue[k + 1]
          /\ openedLog' = openedLog
          /\ streamReader_' = nullptr
          /\ pc' = (IF pc = "idle" THEN "next" ELSE pc)
          /\ lastRet' \notin {"null", "thrown"}
          /\ eosReturns' = eosReturns
          /\ processedEventPerLs_' = processedEventPerLs_
     /\ \A k \in 1..Len(openedLog') :
          k > Len(openedLog) =>
            \/ openedLog'[k] \in onDisk
            \/ openedLog'[k] = lastLumi' /\ lastLumi' > lastLumi]_vars

\* Lumisection 1's file was absent; the reader went on to lumisection 2.
C7_Witness ==
  /\ 1 \notin onDisk /\ poppedLog = <<1, 2>> /\ openedLog = <<2>>
  /\ streamReader_ = 2 /\ pc = "idle"


\* The constructor returns, with skipFirstLumis set.
StartupDone == pc = "ctor" /\ pc' = "idle" /\ flagSkipFirstLumis_

\* C8 as stated: with skipFirstLumis and k entries queued (all their data
\* files on disk), startup opens only the last one, reads no event and
\* leaves the index empty.
C8_OpensOnlyTheLast ==
  [][(StartupDone /\ \A k \in 1..Len(queue) : queue[k] \in onDisk) =>
       /\ openedLog' = <<Last(queue)>>
       /\ readFrom' = {}
       /\ queue' = <<>>]_vars

\* C8, amended: with skipFirstLumis and k entries queued when the first
\* file is opened, startup pops all k entries, opens in turn every one
\* whose data file is on disk (closing the one before), reads no event from
\* any of them, and returns with the index empty and the last entry's file
\* open, or with no file open when that file is absent.
C8_FastForward ==
  [][StartupDone =>
       /\ queue' = <<>>
       /\ poppedLog' = poppedLog \o queue
       /\ openedLog' = openedLog \o SelectSeq(queue, LAMBDA l : l \in onDisk)
       /\ readFrom' = {}
       /\ peakOpen' = 1
       /\ streamReader_' =
            (IF Last(queue) \in onDisk THEN Last(queue) ELSE nullptr)]_vars

\* Startup with two lumisections queued has opened both in turn and ended
\* on the second, with no event read.
C8_Witness ==
  /\ flagSkipFirstLumis_ /\ pc = "idle" /\ lastRet = "none"
  /\ openedLog = <<1, 2>> /\ streamReader_ = 2 /\ readPos = 0
  /\ queue = <<>> /\ readFrom = {}

\* C9: with endOfRunKills, once the index state is not OPEN the first
\* iteration of nextEvent returns the end signal and leaves no file open;
\* no entry is popped, no file opened and no event read.
C9_EndOfRunKills ==
  [][(flagEndOfRunKills_ /\ state # StateOpen /\ checkNextEvent) =>
       /\ lastRet' = "null" /\ pc' = "idle"
       /\ streamReader_' = nullptr
       /\ queue' = queue
       /\ openedLog' = openedLog
       /\ readFrom' = readFrom
       /\ eofSeen' = eofSeen]_vars

\* The kill switch ended the stream with an entry still queued and the
\* last file opened not read to its end.
C9_Witness ==
  /\ flagEndOfRunKills_ /\ state = StateEOR /\ eosReturns # "no"
  /\ lastRet = "null" /\ streamReader_ = nullptr
  /\ queue # <<>> /\ openedLog # <<>>
  /\ Last(openedLog) \in readFrom /\ Last(openedLog) \notin eofSeen

\* An iteration of prepareNextEvent returns the end signal, endOfRunKills
\* being off.
CleanEnd == ~flagEndOfRunKills_ /\ lastRet' = "null" /\ PrepareStep

\* C10 as stated: without endOfRunKills the end signal is returned only
\* when the end of run has been observed, the index is empty, no file is
\* open and the last file opened has been read to its end.
C10_EndOnlyWhenDrained ==
  [][CleanEnd =>
       /\ state = StateEOR /\ queue = <<>>
       /\ streamReader_ = nullptr /\ streamReader_' = nullptr
       /\ openedLog # <<>> /\ Last(openedLog) \in eofSeen]_vars

\* C10, amended: without endOfRunKills the end signal is returned only when
\* the end of run has been observed, the index is empty and no file is
\* open; the file opened last has been closed, at its end of file or by a
\* rotation onto an entry whose data file was absent.
C10_CleanEnd ==
  [][CleanEnd =>
       /\ state = StateEOR /\ state' = StateEOR
       /\ queue = <<>> /\ queue' = <<>>
       /\ streamReader_ = nullptr /\ streamReader_' = nullptr
       /\ openedLog # <<>>
       /\ \/ Last(openedLog) \in eofSeen
          \/ /\ Last(poppedLog) # Last(openedLog)
             /\ Last(poppedLog) \notin Opened]_vars

\* The clean end has been returned after the last file was read to its end.
C10_Witness ==
  /\ ~flagEndOfRunKills_ /\ eosReturns # "no" /\ lastRet = "null"
  /\ state = StateEOR /\ queue = <<>> /\ streamReader_ = nullptr
  /\ Last(openedLog) \in eofSeen /\ Last(openedLog) \in readFrom

\* C11: the per-lumi counter is zero after every step that opens a file,
\* decreases in no other step, and is left as it is by a step that closes
\* the file (end of file, end signal, destruction) or discards an entry
\* whose data file is absent without opening another.
C11_CounterResetOnlyAtOpen ==
  [][/\ openedLog' # openedLog => processedEventPerLs_' = 0
     /\ processedEventPerLs_' < processedEventPerLs_ =>
          openedLog' # openedLog
     /\ (openedLog' = openedLog
           /\ (streamReader_' # streamReader_ \/ poppedLog' # poppedLog)) =>
          processedEventPerLs_' = processedEventPerLs_]_vars

\* Lumisection 1 was left by the threshold rotation (counter above
\* minEventsPerLumi) and lumisection 2 has just been opened, counter zero.
C11_Witness ==
  /\ ~flagSkipFirstLumis_ /\ ~flagEndOfRunKills_
  /\ openedLog = <<1, 2>> /\ 1 \in readFrom /\ 1 \notin eofSeen
  /\ streamReader_ = 2 /\ readPos = 0 /\ processedEventPerLs_ = 0
  /\ pc = "next"

\* C12: once a file has been opened whose first record is not an INIT
\* record, the call in progress has failed for good: that file is the last
\* one ever opened, no event of it has been read, and the reader does
\* nothing more but be destroyed.
C12_HeaderFirst ==
  /\ badHeader # {} =>
       /\ pc \in {"failed", "destroyed"}
       /\ badHeader = {Last(openedLog)}
       /\ badHeader \cap readFrom = {}
       /\ badHeader \cap eofSeen = {}
       /\ eosReturns = "no" \/ lastRet # "null"
  /\ pc = "failed" => streamReader_ \in badHeader

\* nextEvent has failed on the header of lumisection 2's file, after
\* events of lumisection 1.
C12_Witness ==
  /\ pc = "failed" /\ lastRet = "thrown" /\ badHeader = {2}
  /\ openedLog = <<1, 2>> /\ readFrom = {1} /\ streamReader_ = 2

\* C13: with endOfRunKills set and the end of run observed, no iteration
\* of a wait loop of the reader (startup or nextEvent/skip) sleeps.
C13_KillStopsEveryWait ==
  [][(flagEndOfRunKills_ /\ state # StateOpen /\ (Construct \/ PrepareStep))
       => ~slept']_vars

C15_HeaderBeforeEvents ==
  /\ [](/\ pc = "ctor" =>
             (openedLog = <<>> /\ readFrom = {} /\ streamReader_ = nullptr)
        /\ pc \in {"idle", "next", "skip"} =>
             (openedLog # <<>> /\ badHeader = {})
        /\ readFrom \subseteq (Opened \ badHeader))
  /\ [][(lastRet' = "event" /\ PrepareStep) =>
          /\ streamReader_ # nullptr
          /\ streamReader_' = streamReader_
          /\ streamReader_ \in (Opened \ badHeader)
          /\ readPos' = readPos + 1]_vars

\* The constructor waited past lumisection 1, whose file was absent, and
\* nextEvent has returned the first event of lumisection 2.
C15_Witness ==
  /\ pc = "idle" /\ lastRet = "event" /\ toSkip = 0
  /\ poppedLog = <<1, 2>> /\ openedLog = <<2>>
  /\ streamReader_ = 2 /\ readPos = 1 /\ processedEventPerLs_ = 1

\* q is strictly increasing.
Increasing(q) == \A a, b \in 1..Len(q) : a < b => q[a] < q[b]

\* C16: the entries are popped in the order they were announced, each one
\* once (popped entries followed by queued ones are the lumisections
\* announced so far, in order); the files opened are a strictly increasing
\* selection of the popped entries, none opened twice; and the events are
\* surfaced in increasing (lumisection, position) order, each position of a
\* file read at most once.
C16_FifoConsumeOnce ==
  /\ [](/\ poppedLog \o queue = [k \in 1..lastLumi |-> k]
        /\ Increasing(openedLog)
        /\ Opened \subseteq {poppedLog[k] : k \in 1..Len(poppedLog)}
        /\ readFrom \subseteq Opened
        /\ streamReader_ # nullptr => streamReader_ = Last(openedLog))
  /\ [][/\ \A k \in 1..Len(poppedLog) : k <= Len(poppedLog') /\
               poppedLog'[k] = poppedLog[k]
        /\ \A k \in 1..Len(openedLog) : k <= Len(openedLog') /\
               openedLog'[k] = openedLog[k]
        /\ (lastRet' = "event" /\ PrepareStep) =>
             /\ streamReader_' = streamReader_
             /\ readPos' = readPos + 1
             /\ \A l \in readFrom : l <= streamReader_'
        /\ (streamReader_' # nullptr /\ streamReader_' # streamReader_) =>
             /\ readPos' = 0
             /\ \A l \in Opened : l < streamReader_']_vars

\* Both lumisections were popped and opened in order, events of both were
\* surfaced, and the end of the run was reached.
C16_Witness ==
  /\ poppedLog = <<1, 2>> /\ openedLog = <<1, 2>> /\ readFrom = {1, 2}
  /\ queue = <<>> /\ state = StateEOR /\ streamReader_ = 2
  /\ readPos = MaxEvents /\ lastRet = "event"

\* C17: an iteration of the reader (startup, nextEvent or skip) sleeps only
\* when no file is open and no entry is queued, when it begins and when it
\* sleeps.
C17_SleepOnlyWhenIdle ==
  [][(slept' /\ (Construct \/ PrepareStep)) =>
       /\ streamReader_ = nullptr /\ queue = <<>>
       /\ streamReader_' = nullptr /\ queue' = <<>>
       /\ openedLog' = openedLog /\ poppedLog' = poppedLog
       /\ lastRet' \notin {"event", "null"}]_vars

\* The iteration of prepareNextEvent that a step of nextEvent or skip
\* would be, had every file opened so far been removed from disk.
AsIfRemoved(in) == prepareNextEvent([Cur(in) EXCEPT !.onDisk = @ \ Opened])

\* C18: with deleteDatFiles set and unlink failing, a step that opens a
\* file (with a proper header) does not fail and leaves that file open
\* (unless the fast-forward went on to an absent one), the counter at zero
\* and the file on disk; and every step of nextEvent or
\* skip does to the handle, the counter, the index and its result what it
\* would do had the removals succeeded.
C18_UnlinkFailureIgnored ==
  [][(flagDeleteDatFiles_ /\ ~unlinkWorks) =>
       /\ (openedLog' # openedLog /\ badHeader' = {}) =>
            /\ pc' # "failed"
            /\ Last(poppedLog') = Last(openedLog') =>
                 streamReader_' = Last(openedLog')
            /\ processedEventPerLs_' = 0
            /\ Last(openedLog') \in onDisk'
       /\ PrepareStep =>
            \E in \in Inputs :
              LET m == AsIfRemoved(in)
              IN /\ streamReader_' = m.streamReader_
                 /\ readPos' = m.readPos
                 /\ queue' = m.queue
                 /\ poppedLog' = m.poppedLog
                 /\ openedLog' = m.openedLog
                 /\ lastRet' = (IF m.thrown THEN "thrown" ELSE m.ret)
                 /\ processedEventPerLs_' = m.processedEventPerLs_ +
                      (IF pc # "skip" /\ m.ret = "event" THEN 1 ELSE 0)
                 /\ onDisk' \ Opened' = m.onDisk \ Opened']_vars

\* unlink has failed for both lumisections' files, which are still on
\* disk; the first was read to its end and nextEvent returns events of
\* the second.
C18_Witness ==
  /\ flagDeleteDatFiles_ /\ ~unlinkWorks
  /\ openedLog = <<1, 2>> /\ {1, 2} \subseteq onDisk /\ 1 \in eofSeen
  /\ streamReader_ = 2 /\ lastRet = "event" /\ pc = "idle" /\ toSkip = 0

\* C19: front() and pop() are never called on an empty index: every step
\* that pops an entry (startup loop, fast-forward, either rotation branch)
\* found the index non-empty, be it when the step began or in the
\* hasNext() of the rotation test.
C19_NeverEmptyAccess ==
  /\ [](~emptyAccess)
  /\ [][poppedLog' # poppedLog =>
          /\ queue # <<>> \/ lastLumi' > lastLumi
          /\ Len(poppedLog') + Len(queue') = lastLumi']_vars

\* The threshold rotation took the entry of lumisection 2 and the index
\* is exhausted, the run over; no access failed.
C19_Witness ==
  /\ ~emptyAccess /\ ~flagSkipFirstLumis_ /\ ~flagEndOfRunKills_
  /\ poppedLog = <<1, 2>> /\ 1 \in readFrom /\ 1 \notin eofSeen
  /\ queue = <<>> /\ state = StateEOR /\ eosReturns # "no"

\* C20: a step of skip leaves the per-lumi counter as it is, or at zero
\* when it opens a file; the events it consumes are not counted.
C20_SkipNeverCounts ==
  [][skipStep =>
       /\ openedLog' = openedLog =>
            processedEventPerLs_' = processedEventPerLs_
       /\ openedLog' # openedLog => processedEventPerLs_' = 0
       /\ lastRet' = "event" =>
            (readPos' = readPos + 1 /\ skipConsumed' = skipConsumed + 1)]_vars

\* skip has consumed both events of the open file, the counter still at
\* zero although minEventsPerLumi is not above it and an entry is queued:
\* nextEvent will not rotate yet.
C20_Witness ==
  /\ pc = "idle" /\ toSkip >= 2 /\ lastRet = "event"
  /\ skipConsumed >= 2 /\ readPos = 2 /\ processedEventPerLs_ = 0
  /\ streamReader_ # nullptr /\ queue # <<>> /\ minEventsPerLs_ = 0

====
